---------------------------- MODULE Spec2Model ----------------------------
(***************************************************************************)
(* A model of the laptop advisor (src/advisor.py): the session state of    *)
(* LaptopAdvisor (preferences, current_filters, last_results), its         *)
(* operations (_fuzzy_match_brand, _extract_filters, _apply_filters,       *)
(* _get_full_recommendation, _compare_products, process_command) and the   *)
(* interactive loop of main().                                             *)
(*                                                                         *)
(* Text is a sequence of characters.  A character is a one-character       *)
(* string for ASCII and the string "uXXXX" (its code point) otherwise,     *)
(* so that lower(), strip(), split(), the substring test and the regular   *)
(* expressions of the source are computed, not assumed.                    *)
(*                                                                         *)
(* A value of a filter (a JSON value of the delegated reply, or a Python   *)
(* value of a test) is a record [t, v] with t its Python type.             *)
(*                                                                         *)
(* The delegated service (the OpenAI client) is the environment: each      *)
(* call either raises, returns a reply without choices, or returns a       *)
(* reply whose content is drawn from a finite set.                         *)
(***************************************************************************)
EXTENDS Integers, Sequences, FiniteSets, TLC

VARIABLES
    available_brands,   \* self.available_brands          (advisor.py:42)
    preferences,        \* self.preferences               (advisor.py:35)
    current_filters,    \* self.current_filters           (advisor.py:34)
    last_results,       \* self.last_results              (advisor.py:33)
    running,            \* main(): the while loop has not left (advisor.py:310)
    call,               \* the last operation and its inputs
    outcome             \* what the last operation returned or raised

vars == <<available_brands, preferences, current_filters, last_results,
          running, call, outcome>>

-----------------------------------------------------------------------------
(* Bounds of the model. *)

\* the most keys one filter map of a direct _apply_filters call holds
MaxKeys == 2
\* the most positions one direct _compare_products call is given
MaxIndices == 2
\* the largest position a direct _compare_products call is given
MaxIndex == 5

-----------------------------------------------------------------------------
(* Python values. *)

NoneV == [t |-> "NoneType", v |-> <<>>]
PyInt(n) == [t |-> "int", v |-> n]
PyStr(s) == [t |-> "str", v |-> s]
PyBool(b) == [t |-> "bool", v |-> b]

\* bool(x) of Python for these types
Truthy(x) ==
    CASE x.t = "NoneType" -> FALSE
      [] x.t = "int" -> x.v # 0
      [] x.t = "str" -> x.v # <<>>
      [] x.t = "bool" -> x.v

IsNumber(x) == x.t \in {"int", "bool"}

\* the number a Python int or bool compares as
NumberOf(x) == IF x.t = "bool" THEN (IF x.v THEN 1 ELSE 0) ELSE x.v

EmptyMap == [k \in {} |-> NoneV]

\* dict.update: the keys of g overwrite those of f
DictUpdate(f, g) ==
    [k \in DOMAIN f \cup DOMAIN g |-> IF k \in DOMAIN g THEN g[k] ELSE f[k]]

DictDel(f, key) == [k \in DOMAIN f \ {key} |-> f[k]]

Max(a, b) == IF a >= b THEN a ELSE b

-----------------------------------------------------------------------------
(* Text: str.lower, str.strip, str.split, the "in" test, int(), formatting *)

Whitespace == {" ", "\t", "\n", "\r"}
DigitChars == <<"0", "1", "2", "3", "4", "5", "6", "7", "8", "9">>
IsSpace(c) == c \in Whitespace
IsDigit(c) == \E i \in 1..10 : DigitChars[i] = c
DigitVal(c) == (CHOOSE i \in 1..10 : DigitChars[i] = c) - 1

LowerTable ==
    [A |-> "a", B |-> "b", C |-> "c", D |-> "d", E |-> "e", F |-> "f", G |-> "g",
     H |-> "h", I |-> "i", J |-> "j", K |-> "k", L |-> "l", M |-> "m", N |-> "n",
     O |-> "o", P |-> "p", Q |-> "q", R |-> "r", S |-> "s", T |-> "t", U |-> "u",
     V |-> "v", W |-> "w", X |-> "x", Y |-> "y", Z |-> "z",
     u0410 |-> "u0430", u0411 |-> "u0431", u0412 |-> "u0432", u0413 |-> "u0433",
     u0414 |-> "u0434", u0415 |-> "u0435", u0416 |-> "u0436", u0417 |-> "u0437",
     u0418 |-> "u0438", u0419 |-> "u0439", u041A |-> "u043A", u041B |-> "u043B",
     u041C |-> "u043C", u041D |-> "u043D", u041E |-> "u043E", u041F |-> "u043F",
     u0420 |-> "u0440", u0421 |-> "u0441", u0422 |-> "u0442", u0423 |-> "u0443",
     u0424 |-> "u0444", u0425 |-> "u0445", u0426 |-> "u0446", u0427 |-> "u0447",
     u0428 |-> "u0448", u0429 |-> "u0449", u042A |-> "u044A", u042B |-> "u044B",
     u042C |-> "u044C", u042D |-> "u044D", u042E |-> "u044E", u042F |-> "u044F"]

LowerChar(c) == IF c \in DOMAIN LowerTable THEN LowerTable[c] ELSE c

\* str.lower()
Lower(s) == [i \in 1..Len(s) |-> LowerChar(s[i])]

RECURSIVE LStrip(_)
LStrip(s) ==
    IF s = <<>> THEN s
    ELSE IF IsSpace(Head(s)) THEN LStrip(Tail(s)) ELSE s

RECURSIVE RStrip(_)
RStrip(s) ==
    IF s = <<>> THEN s
    ELSE IF IsSpace(s[Len(s)]) THEN RStrip(SubSeq(s, 1, Len(s) - 1)) ELSE s

\* str.strip()
Strip(s) == RStrip(LStrip(s))

\* whether text p stands in text s at position i
MatchAt(s, p, i) ==
    /\ i >= 1
    /\ i + Len(p) - 1 <= Len(s)
    /\ \A j \in 1..Len(p) : s[i + j - 1] = p[j]

\* str.startswith
StartsWith(s, p) == MatchAt(s, p, 1)

\* sub in s
Contains(s, sub) == \E i \in 1..(Len(s) + 1) : MatchAt(s, sub, i)

\* the end of the run of characters of class Is(_) that starts at i
\* (i - 1 when s[i] is not of the class)
RECURSIVE RunEnd(_, _, _)
RunEnd(s, i, digits) ==
    IF i <= Len(s) /\ (IF digits THEN IsDigit(s[i]) ELSE IsSpace(s[i]))
    THEN RunEnd(s, i + 1, digits)
    ELSE i - 1

\* int() of a text of decimal digits
RECURSIVE ParseInt(_)
ParseInt(s) ==
    IF s = <<>> THEN 0
    ELSE 10 * ParseInt(SubSeq(s, 1, Len(s) - 1)) + DigitVal(s[Len(s)])

\* str() of a natural number
RECURSIVE IntToText(_)
IntToText(n) ==
    IF n < 10 THEN <<DigitChars[n + 1]>>
    ELSE IntToText(n \div 10) \o <<DigitChars[(n % 10) + 1]>>

\* f"{price:.2f}" of a price held in cents
Money(cents) ==
    IntToText(cents \div 100) \o <<".">>
        \o <<DigitChars[((cents % 100) \div 10) + 1], DigitChars[(cents % 10) + 1]>>

\* s.split(maxsplit=1) of a text: no part, one part, or the first word and
\* the rest (the whitespace between them removed, trailing whitespace kept)
SplitOnce(s) ==
    LET t == LStrip(s)
        firstSpace == IF \E i \in 1..Len(t) : IsSpace(t[i])
                      THEN CHOOSE i \in 1..Len(t) :
                               IsSpace(t[i]) /\ \A j \in 1..(i - 1) : ~IsSpace(t[j])
                      ELSE 0
    IN  IF t = <<>> THEN <<>>
        ELSE IF firstSpace = 0 THEN <<t>>
        ELSE LET rest == LStrip(SubSeq(t, firstSpace, Len(t)))
             IN  IF rest = <<>> THEN <<SubSeq(t, 1, firstSpace - 1)>>
                 ELSE <<SubSeq(t, 1, firstSpace - 1), rest>>

\* [int(m) for m in re.findall(r'\d+', s)], read from position i on
RECURSIVE FindAllInts(_, _)
FindAllInts(s, i) ==
    IF i > Len(s) THEN <<>>
    ELSE IF IsDigit(s[i])
         THEN LET e == RunEnd(s, i, TRUE)
              IN  <<ParseInt(SubSeq(s, i, e))>> \o FindAllInts(s, e + 1)
         ELSE FindAllInts(s, i + 1)

\* ", ".join(parts)
RECURSIVE Join(_, _)
Join(parts, sep) ==
    IF parts = <<>> THEN <<>>
    ELSE IF Len(parts) = 1 THEN parts[1]
    ELSE parts[1] \o sep \o Join(Tail(parts), sep)

-----------------------------------------------------------------------------
(* The catalog: what _load_products returns for the data file. *)

B_Lenovo == <<"L", "e", "n", "o", "v", "o">>
B_Dell == <<"D", "e", "l", "l">>

Products == <<
    [brand |-> B_Lenovo,
     model |-> <<"T", "h", "i", "n", "k", "P", "a", "d", " ", "X", "1">>,
     ram_gb |-> 16, cpu |-> <<"I", "n", "t", "e", "l", " ", "i", "7">>,
     price |-> 99900, in_stock |-> TRUE],
    [brand |-> B_Lenovo,
     model |-> <<"I", "d", "e", "a", "P", "a", "d">>,
     ram_gb |-> 8, cpu |-> <<"A", "M", "D", " ", "R", "y", "z", "e", "n", " ", "5">>,
     price |-> 65050, in_stock |-> FALSE],
    [brand |-> B_Dell,
     model |-> <<"X", "P", "S", " ", "1", "3">>,
     ram_gb |-> 16, cpu |-> <<"I", "n", "t", "e", "l", " ", "i", "5">>,
     price |-> 120000, in_stock |-> TRUE],
    [brand |-> B_Dell,
     model |-> <<"I", "n", "s", "p", "i", "r", "o", "n">>,
     ram_gb |-> 8, cpu |-> <<"A", "M", "D", " ", "R", "y", "z", "e", "n", " ", "7">>,
     price |-> 110000, in_stock |-> FALSE]
>>

\* set(p['brand'] for p in self.products)
BrandSet == {Products[i].brand : i \in 1..Len(Products)}

\* list(set(...)): the order of a set of strings is not fixed by the language
BrandOrders ==
    {s \in [1..Cardinality(BrandSet) -> BrandSet] :
        \A i, j \in DOMAIN s : i # j => s[i] # s[j]}
-----------------------------------------------------------------------------
(* What a call gives: a value, or an exception. *)

Returns(x) == [raised |-> FALSE, exc |-> "", value |-> x]
Raises(e) == [raised |-> TRUE, exc |-> e, value |-> NoneV]

-----------------------------------------------------------------------------
(* The Brand Matcher: _fuzzy_match_brand, with rapidfuzz's fuzz.WRatio and  *)
(* process.extractOne.  Scores are held in hundredths (0..10000).           *)

Threshold == 75

\* one row of the table of the longest common subsequence: row[j + 1] is the
\* length for the text read so far, with c, against the first j characters of b
RECURSIVE LcsRow(_, _, _, _)
LcsRow(prev, c, b, row) ==
    IF Len(row) = Len(b) + 1 THEN row
    ELSE LET j == Len(row)
         IN  LcsRow(prev, c, b,
                    Append(row, IF c = b[j] THEN prev[j] + 1 ELSE Max(prev[j + 1], row[j])))

RECURSIVE LcsRows(_, _, _)
LcsRows(a, b, prev) ==
    IF a = <<>> THEN prev[Len(b) + 1]
    ELSE LcsRows(Tail(a), b, LcsRow(prev, Head(a), b, <<0>>))

\* the length of a longest common subsequence
LCS(a, b) == LcsRows(a, b, [j \in 1..(Len(b) + 1) |-> 0])

\* fuzz.ratio: the normalized Indel similarity, 100 * 2 * LCS / (len1 + len2)
Ratio(a, b) ==
    IF Len(a) + Len(b) = 0 THEN 10000
    ELSE (20000 * LCS(a, b)) \div (Len(a) + Len(b))

\* the greatest number of a non-empty set
SetMax(S) == CHOOSE x \in S : \A y \in S : y <= x

\* the window of the longer text that the alignment starting at i covers
Window(long, i, m) ==
    SubSeq(long, Max(1, i), IF i + m - 1 <= Len(long) THEN i + m - 1 ELSE Len(long))

\* the best ratio of the shorter text against a window of the longer one (as
\* long as the shorter, or cut short by an end of the text)
BestWindow(short, long) ==
    IF short = <<>> THEN 0
    ELSE SetMax({Ratio(short, Window(long, i, Len(short))) : i \in (2 - Len(short))..Len(long)})

\* fuzz.partial_ratio
PartialRatio(a, b) == IF Len(a) <= Len(b) THEN BestWindow(a, b) ELSE BestWindow(b, a)

\* the weighting of fuzz.WRatio, base being fuzz.ratio of the two texts
Weighted(a, b, base) ==
    LET longer == Max(Len(a), Len(b))
        shorter == IF Len(a) <= Len(b) THEN Len(a) ELSE Len(b)
    IN  IF 2 * longer < 3 * shorter  \* len_ratio < 1.5
        THEN base
        ELSE Max(base, (PartialRatio(a, b) * (IF longer <= 8 * shorter THEN 90 ELSE 60)) \div 100)

\* fuzz.WRatio of two texts of one word each (for one word the token ratios
\* are the plain ratios, which their 0.95 scale never lets win)
WRatio(a, b) == IF a = <<>> \/ b = <<>> THEN 0 ELSE Weighted(a, b, Ratio(a, b))

\* the scores of the brands, in the order of the list
RECURSIVE Scores(_, _)
Scores(query, brands) ==
    IF brands = <<>> THEN <<>>
    ELSE <<WRatio(query, Head(brands))>> \o Scores(query, Tail(brands))

\* the first brand of the best score, with the score
BestOf(brands, scores) ==
    LET best == CHOOSE i \in DOMAIN brands :
                    /\ \A j \in DOMAIN brands : scores[j] <= scores[i]
                    /\ \A j \in 1..(i - 1) : scores[j] < scores[i]
    IN  [found |-> TRUE, choice |-> brands[best], score |-> scores[best]]

\* process.extractOne(query, brands, scorer=fuzz.WRatio); no brand gives None
ExtractOne(query, brands) ==
    IF brands = <<>> THEN [found |-> FALSE, choice |-> <<>>, score |-> 0]
    ELSE BestOf(brands, Scores(query, brands))

\* for brand in self.available_brands: if brand.lower() == query_lower: return brand
RECURSIVE FirstExact(_, _)
FirstExact(brands, query_lower) ==
    IF brands = <<>> THEN NoneV
    ELSE IF Lower(Head(brands)) = query_lower THEN PyStr(Head(brands))
    ELSE FirstExact(Tail(brands), query_lower)

\* if result and result[1] >= threshold: return result[0]; return None
AboveThreshold(result) ==
    IF result.found /\ result.score >= Threshold * 100
    THEN Returns(PyStr(result.choice))
    ELSE Returns(NoneV)

\* the exact pass, then the fuzzy pass (advisor.py:61-67)
MatchBrand(brands, query, exact) ==
    IF Truthy(exact) THEN Returns(exact) ELSE AboveThreshold(ExtractOne(query, brands))

\* _fuzzy_match_brand(query), over self.available_brands
fuzzy_match_brand(brands, query) ==
    IF ~Truthy(query) THEN Returns(NoneV)
    ELSE IF query.t # "str" THEN Raises("AttributeError")   \* query.lower()
    ELSE MatchBrand(brands, query.v, FirstExact(brands, Lower(query.v)))

-----------------------------------------------------------------------------
(* The literals of advisor.py. *)

T_exit_ru == <<"u0432", "u044B", "u0445", "u043E", "u0434">>
T_pref == <<"u043F", "u0440", "u0435", "u0434", "u043F", "u043E", "u0447", "u0438", "u0442",
    "u0430", "u044E">>
T_compare_ru == <<"u0441", "u0440", "u0430", "u0432", "u043D", "u0438">>
T_in_stock == <<"u0432", " ", "u043D", "u0430", "u043B", "u0438", "u0447", "u0438", "u0438">>
T_ram_ru == <<"u0440", "u0430", "u043C">>
T_rekomend == <<"u0440", "u0435", "u043A", "u043E", "u043C", "u0435", "u043D", "u0434">>
T_sovet == <<"u0441", "u043E", "u0432", "u0435", "u0442">>
T_posovetuj == <<"u043F", "u043E", "u0441", "u043E", "u0432", "u0435", "u0442", "u0443", "u0439">>
T_evro == <<"u0435", "u0432", "u0440", "u043E">>
T_euro_sign == <<"u20AC">>
M_no_products == <<"u274C", " ", "u041D", "u0435", "u0442", " ", "u043D", "u043E", "u0443",
    "u0442", "u0431", "u0443", "u043A", "u043E", "u0432", " ", "u0434", "u043B", "u044F", " ",
    "u0440", "u0435", "u043A", "u043E", "u043C", "u0435", "u043D", "u0434", "u0430", "u0446",
    "u0438", "u0438">>
M_fallback_head == <<"u274C", " ", "u041D", "u0435", " ", "u0443", "u0434", "u0430", "u043B",
    "u043E", "u0441", "u044C", " ", "u043F", "u043E", "u043B", "u0443", "u0447", "u0438",
    "u0442", "u044C", " ", "u0440", "u0435", "u043A", "u043E", "u043C", "u0435", "u043D",
    "u0434", "u0430", "u0446", "u0438", "u044E", ".", " ", "u0414", "u043E", "u0441", "u0442",
    "u0443", "u043F", "u043D", "u044B", "u0435", " ", "u0432", "u0430", "u0440", "u0438",
    "u0430", "u043D", "u0442", "u044B", ":">>
M_price_label == <<"u0426", "u0435", "u043D", "u0430", ":", " ", "$">>
M_in_stock_yes == <<"u2705", " ", "u0412", " ", "u043D", "u0430", "u043B", "u0438", "u0447",
    "u0438", "u0438">>
M_in_stock_no == <<"u274C", " ", "u041D", "u0435", "u0442", " ", "u0432", " ", "u043D",
    "u0430", "u043B", "u0438", "u0447", "u0438", "u0438">>
M_not_found == <<"u274C", " ", "u041D", "u0435", " ", "u043D", "u0430", "u0439", "u0434",
    "u0435", "u043D", "u043E", " ", "u043D", "u043E", "u0443", "u0442", "u0431", "u0443",
    "u043A", "u043E", "u0432", " ", "u043F", "u043E", " ", "u0437", "u0430", "u0434", "u0430",
    "u043D", "u043D", "u044B", "u043C", " ", "u043A", "u0440", "u0438", "u0442", "u0435",
    "u0440", "u0438", "u044F", "u043C", ".">>
M_found == <<"u1F50D", " ", "u041D", "u0430", "u0439", "u0434", "u0435", "u043D", "u043E", " ",
    "u043D", "u043E", "u0443", "u0442", "u0431", "u0443", "u043A", "u043E", "u0432", ":", " ">>
M_shown == <<"u041F", "u043E", "u043A", "u0430", "u0437", "u0430", "u043D", "u043E", " ", "1",
    "0", " ", "u0438", "u0437", " ">>
M_refine == <<".", " ", "u0423", "u0442", "u043E", "u0447", "u043D", "u0438", "u0442", "u0435",
    " ", "u043A", "u0440", "u0438", "u0442", "u0435", "u0440", "u0438", "u0438", ".">>
M_no_results == <<"u274C", " ", "u041D", "u0435", "u0442", " ", "u0440", "u0435", "u0437",
    "u0443", "u043B", "u044C", "u0442", "u0430", "u0442", "u043E", "u0432", " ", "u0434",
    "u043B", "u044F", " ", "u0441", "u0440", "u0430", "u0432", "u043D", "u0435", "u043D",
    "u0438", "u044F", ".", " ", "u0421", "u043D", "u0430", "u0447", "u0430", "u043B", "u0430",
    " ", "u0432", "u044B", "u043F", "u043E", "u043B", "u043D", "u0438", "u0442", "u0435", " ",
    "u043F", "u043E", "u0438", "u0441", "u043A", ".">>
M_bad_numbers == <<"u274C", " ", "u041D", "u0435", "u0432", "u0435", "u0440", "u043D", "u044B",
    "u0435", " ", "u043D", "u043E", "u043C", "u0435", "u0440", "u0430", " ", "u043C", "u043E",
    "u0434", "u0435", "u043B", "u0435", "u0439", ".", " ", "u0414", "u043E", "u0441", "u0442",
    "u0443", "u043F", "u043D", "u044B", " ", "u043D", "u043E", "u043C", "u0435", "u0440",
    "u0430", " ", "u043E", "u0442", " ", "1", " ", "u0434", "u043E", " ">>
M_cmp_head == <<"u1F4CA", " ", "u0421", "u0440", "u0430", "u0432", "u043D", "u0435", "u043D",
    "u0438", "u0435", ":">>
M_cmp_price == <<" ", " ", " ", "u0426", "u0435", "u043D", "u0430", ":", " ", "$">>
M_cmp_best == <<"u1F3C6", " ", "u0420", "u0435", "u043A", "u043E", "u043C", "u0435", "u043D",
    "u0434", "u0430", "u0446", "u0438", "u044F", ":", " ">>
M_cmp_why == <<"u1F4A1", " ", "u041F", "u043E", "u0447", "u0435", "u043C", "u0443", ":", " ",
    "u041B", "u0443", "u0447", "u0448", "u0435", "u0435", " ", "u0441", "u043E", "u043E",
    "u0442", "u043D", "u043E", "u0448", "u0435", "u043D", "u0438", "u0435", " ", "u0446",
    "u0435", "u043D", "u044B", " ", "u0438", " ", "u0445", "u0430", "u0440", "u0430", "u043A",
    "u0442", "u0435", "u0440", "u0438", "u0441", "u0442", "u0438", "u043A", " ", "u0441",
    "u0440", "u0435", "u0434", "u0438", " ", "u0432", "u044B", "u0431", "u0440", "u0430",
    "u043D", "u043D", "u044B", "u0445", ".">>
M_pref_ok == <<"u2705", " ", "u0417", "u0430", "u043F", "u043E", "u043C", "u043D", "u0438",
    "u043B", " ", "u0432", "u0430", "u0448", "u0435", " ", "u043F", "u0440", "u0435", "u0434",
    "u043F", "u043E", "u0447", "u0442", "u0435", "u043D", "u0438", "u0435", ":", " ">>
M_brand_open == <<"u274C", " ", "u0411", "u0440", "u0435", "u043D", "u0434", " ", "'">>
M_brand_close == <<"'", " ", "u043D", "u0435", " ", "u043D", "u0430", "u0439", "u0434",
    "u0435", "u043D", ".", " ", "u0414", "u043E", "u0441", "u0442", "u0443", "u043F", "u043D",
    "u044B", "u0435", " ", "u0431", "u0440", "u0435", "u043D", "u0434", "u044B", ":", " ">>
T_exit_en == <<"e", "x", "i", "t">>
T_quit == <<"q", "u", "i", "t">>
T_compare_en == <<"c", "o", "m", "p", "a", "r", "e">>
T_gb == <<"g", "b">>
T_dollar == <<"$">>

\* the sentinel process_command returns for an exit phrase (advisor.py:276)
ExitSentinel == T_exit_en

-----------------------------------------------------------------------------
(* The delegated service: what one call of client.chat.completions.create  *)
(* gives.  The content of an extraction reply is held as what json.loads   *)
(* makes of it; the content of a generation reply is a text or None.       *)

ServiceRaises == [kind |-> "raises", valid |-> FALSE, isdict |-> FALSE, items |-> EmptyMap, content |-> NoneV]
NoChoices == [kind |-> "no_choices", valid |-> FALSE, isdict |-> FALSE, items |-> EmptyMap, content |-> NoneV]
NotCalled == [kind |-> "not_called", valid |-> FALSE, isdict |-> FALSE, items |-> EmptyMap, content |-> NoneV]
\* a reply whose content is not JSON
NotJson == [kind |-> "content", valid |-> FALSE, isdict |-> FALSE, items |-> EmptyMap, content |-> NoneV]
\* a reply whose content is JSON, but not an object
JsonList == [kind |-> "content", valid |-> TRUE, isdict |-> FALSE, items |-> EmptyMap, content |-> NoneV]
\* a reply whose content is the JSON object obj
JsonObject(obj) == [kind |-> "content", valid |-> TRUE, isdict |-> TRUE, items |-> obj, content |-> NoneV]
\* a generation reply with this message content
Content(c) == [kind |-> "content", valid |-> FALSE, isdict |-> FALSE, items |-> EmptyMap, content |-> c]

-----------------------------------------------------------------------------
(* _extract_filters *)

\* re.search(r'(\d+)\s*gb', s) anchored at i: the digits, or <<>>
GbAt(s, i) ==
    IF i <= Len(s) /\ IsDigit(s[i])
    THEN LET e == RunEnd(s, i, TRUE)
             w == RunEnd(s, e + 1, FALSE)
         IN  IF MatchAt(s, T_gb, w + 1) THEN SubSeq(s, i, e) ELSE <<>>
    ELSE <<>>

\* re.search(r'рам\s*(\d+)', s) anchored at i: the digits, or <<>>
RamAt(s, i) ==
    IF MatchAt(s, T_ram_ru, i)
    THEN LET w == RunEnd(s, i + Len(T_ram_ru), FALSE)
             e == RunEnd(s, w + 1, TRUE)
         IN  SubSeq(s, w + 1, e)
    ELSE <<>>

\* the match at i, if there is one, else the search from i + 1
RECURSIVE RamMatchFrom(_, _)
FirstOf(s, i, gb, ram) ==
    IF gb # <<>> THEN gb
    ELSE IF ram # <<>> THEN ram
    ELSE RamMatchFrom(s, i + 1)

RamMatchFrom(s, i) ==
    IF i > Len(s) THEN <<>> ELSE FirstOf(s, i, GbAt(s, i), RamAt(s, i))

\* re.search(r'(\d+)\s*gb|рам\s*(\d+)', s): group(1) or group(2) of the
\* leftmost match, <<>> without a match
RamMatch(s) == RamMatchFrom(s, 1)

\* if "в наличии" in user_input.lower(): filters["in_stock"] = True
StockFilter(low) == IF Contains(low, T_in_stock) THEN [in_stock |-> PyBool(TRUE)] ELSE EmptyMap

\* if ram_match: filters["ram"] = int(ram_value)
RamFilter(ram_value) == IF ram_value # <<>> THEN [ram |-> PyInt(ParseInt(ram_value))] ELSE EmptyMap

\* the local regex pass over user_input.lower()
LocalPass(low) == DictUpdate(StockFilter(low), RamFilter(RamMatch(low)))

\* the local regex pass (advisor.py:71-79)
LocalFilters(user_input) == LocalPass(Lower(user_input))

\* for key, value in gpt_filters.items(): if key not in filters: filters[key] = value
MergeMissing(filters, gpt_filters) == DictUpdate(gpt_filters, filters)

\* the brand of the merged filters resolved (advisor.py:101-106); when the
\* Brand Matcher raises, the except branch returns the merged filters
Resolved(merged, matched) ==
    IF matched.raised THEN [filters |-> merged, failed |-> TRUE]
    ELSE IF Truthy(matched.value)
    THEN [filters |-> DictUpdate(merged, [brand |-> matched.value]), failed |-> FALSE]
    ELSE [filters |-> DictDel(merged, "brand"), failed |-> FALSE]

\* if "brand" in filters: ... (advisor.py:100-106)
ResolveBrand(brands, merged) ==
    IF "brand" \notin DOMAIN merged
    THEN [filters |-> merged, failed |-> FALSE]
    ELSE Resolved(merged, fuzzy_match_brand(brands, merged["brand"]))

\* the delegated pass over the filters of the local pass (advisor.py:89-110)
DelegatedPass(brands, filters, reply) ==
    IF reply.kind # "content" THEN [filters |-> filters, failed |-> TRUE]   \* raised, or no choices
    ELSE IF ~reply.valid THEN [filters |-> filters, failed |-> TRUE]        \* json.loads raises
    ELSE IF ~reply.isdict THEN [filters |-> filters, failed |-> TRUE]       \* .items() raises
    ELSE ResolveBrand(brands, MergeMissing(filters, reply.items))

\* _extract_filters(user_input) with the delegated reply: the mapping it
\* returns, and whether the delegated pass was given up (no choices, or
\* the except branch).  It never raises: every statement that can is
\* inside the try.
extract_filters(brands, user_input, reply) ==
    DelegatedPass(brands, LocalFilters(user_input), reply)

-----------------------------------------------------------------------------
(* _apply_filters *)

\* one list comprehension of _apply_filters: skipped when the filter is not
\* active; raising when the comparison cannot be made, which Python finds
\* out at the first product it looks at
Stage(acc, active, comparable, exc, Keep(_)) ==
    IF acc.raised \/ ~active THEN acc
    ELSE IF ~comparable /\ acc.value # <<>> THEN Raises(exc)
    ELSE Returns(SelectSeq(acc.value, Keep))

\* the mutant of RamKeeps: a strict comparison
RamKeepsStrict(p, ram) == p.ram_gb > NumberOf(ram)

\* p['ram_gb'] >= self.current_filters["ram"]
RamKeeps(p, ram) == p.ram_gb >= NumberOf(ram)

\* p['price'] <= self.current_filters["max_price"] (the product's price is in cents)
PriceKeeps(p, max_price) == p.price <= 100 * NumberOf(max_price)

\* self.current_filters["cpu"].lower() in p['cpu'].lower()
CpuKeeps(p, cpu) == Contains(Lower(p.cpu), Lower(cpu.v))

\* p['brand'].lower() == brand.lower()
BrandKeeps(p, brand) == Lower(p.brand) = Lower(brand.v)

\* p['in_stock'] == self.current_filters["in_stock"]
StockKeeps(p, in_stock) == IsNumber(in_stock) /\ (IF p.in_stock THEN 1 ELSE 0) = NumberOf(in_stock)

\* the mutant of BrandFiltered: the resolved brand is not used to filter
BrandFilteredIgnored(acc, matched) ==
    IF matched.raised THEN Raises(matched.exc) ELSE acc

\* if matched_brand: filtered = [p for p in filtered if ...]
BrandFiltered(acc, matched) ==
    IF matched.raised THEN Raises(matched.exc)
    ELSE IF Truthy(matched.value)
    THEN Returns(SelectSeq(acc.value, LAMBDA p : BrandKeeps(p, matched.value)))
    ELSE acc

\* the brand stage (advisor.py:126-129): the stored brand is resolved again
BrandStage(acc, brands, cf) ==
    IF acc.raised \/ "brand" \notin DOMAIN cf THEN acc
    ELSE BrandFiltered(acc, fuzzy_match_brand(brands, cf["brand"]))

\* the filtering of _apply_filters, over the merged filters cf (advisor.py:114-133)
FilterProducts(brands, prefs, cf) ==
    LET s0 == Returns(Products)
        s1 == Stage(s0, Truthy(prefs.brand), TRUE, "", LAMBDA p : BrandKeeps(p, prefs.brand))
        s2 == Stage(s1, "ram" \in DOMAIN cf, IsNumber(cf["ram"]), "TypeError",
                    LAMBDA p : RamKeeps(p, cf["ram"]))
        s3 == Stage(s2, "max_price" \in DOMAIN cf, IsNumber(cf["max_price"]), "TypeError",
                    LAMBDA p : PriceKeeps(p, cf["max_price"]))
        s4 == Stage(s3, "cpu" \in DOMAIN cf, cf["cpu"].t = "str", "AttributeError",
                    LAMBDA p : CpuKeeps(p, cf["cpu"]))
        s5 == BrandStage(s4, brands, cf)
        s6 == Stage(s5, "in_stock" \in DOMAIN cf, TRUE, "", LAMBDA p : StockKeeps(p, cf["in_stock"]))
    IN  s6

\* the mutant of MergeFilters: the new filters replace the standing ones
ReplaceFilters(cf, filters) == filters

\* self.current_filters.update(filters)
MergeFilters(cf, filters) == DictUpdate(cf, filters)

-----------------------------------------------------------------------------
(* Presentation: _format_product, _format_results, the currency fix-up,    *)
(* _get_full_recommendation and _compare_products.                          *)

NL == <<"\n">>
BrandModel(p) == p.brand \o <<" ">> \o p.model
StockText(p) == IF p.in_stock THEN M_in_stock_yes ELSE M_in_stock_no

\* products[:n]
Take(s, n) == SubSeq(s, 1, IF Len(s) < n THEN Len(s) ELSE n)

\* _format_product
format_product(p) ==
    BrandModel(p) \o <<" ", "|", " ">>
        \o <<"R", "A", "M", ":", " ">> \o IntToText(p.ram_gb) \o <<"G", "B", " ", "|", " ">>
        \o <<"C", "P", "U", ":", " ">> \o p.cpu \o <<" ", "|", " ">>
        \o M_price_label \o Money(p.price) \o <<" ", "|", " ">>
        \o StockText(p)

RECURSIVE NumberedLines(_, _)
NumberedLines(products, i) ==
    IF i > Len(products) THEN <<>>
    ELSE IntToText(i) \o <<".", " ">> \o format_product(products[i]) \o NL
             \o NumberedLines(products, i + 1)

\* _format_results
format_results(products) ==
    IF products = <<>> THEN M_not_found
    ELSE M_found \o IntToText(Len(products)) \o NL
             \o NumberedLines(Take(products, 10), 1)
             \o (IF Len(products) > 10
                 THEN NL \o M_shown \o IntToText(Len(products)) \o M_refine
                 ELSE <<>>)

\* text.replace("€", "$")
ReplaceEuroSign(s) == [i \in 1..Len(s) |-> IF <<s[i]>> = T_euro_sign THEN "$" ELSE s[i]]

\* re.sub(r'(\d+)\s*евро', r'$\1', s, flags=re.IGNORECASE), read from position i on
RECURSIVE SubEuroWord(_, _)
SubEuroWord(s, i) ==
    IF i > Len(s) THEN <<>>
    ELSE IF IsDigit(s[i])
         THEN LET e == RunEnd(s, i, TRUE)
                  w == RunEnd(s, e + 1, FALSE)
              IN  IF MatchAt(Lower(s), T_evro, w + 1)
                  THEN T_dollar \o SubSeq(s, i, e) \o SubEuroWord(s, w + 1 + Len(T_evro))
                  ELSE <<s[i]>> \o SubEuroWord(s, i + 1)
         ELSE <<s[i]>> \o SubEuroWord(s, i + 1)

\* the two fix-ups of a delegated reply (advisor.py:167-168, 247-248)
FixCurrency(s) == SubEuroWord(ReplaceEuroSign(s), 1)

RECURSIVE FallbackLines(_)
FallbackLines(products) ==
    IF products = <<>> THEN <<>>
    ELSE NL \o <<"-", " ">> \o BrandModel(products[1]) \o <<" ", "(", "$">>
             \o Money(products[1].price) \o <<")">> \o FallbackLines(Tail(products))

\* the fallback of _get_full_recommendation (advisor.py:173-175)
RecommendationFallback(products) == M_fallback_head \o FallbackLines(Take(products, 3))

\* _get_full_recommendation(products) with the delegated reply
get_full_recommendation(products, reply) ==
    IF products = <<>> THEN Returns(M_no_products)
    ELSE IF reply.kind = "raises" THEN Returns(RecommendationFallback(products))
    ELSE IF reply.kind = "content"
    THEN IF reply.content.t = "str"
         THEN Returns(FixCurrency(reply.content.v))
         ELSE Returns(RecommendationFallback(products))   \* None.replace raises: except
    ELSE Raises("UnboundLocalError")   \* no choices: fallback was never assigned

\* the mutant of Selected: position 0 is taken for a position (Python's [-1])
SelectedFromZero(results, indices) ==
    LET valid == SelectSeq(indices, LAMBDA idx : 0 <= idx /\ idx <= Len(results))
    IN  [i \in 1..Len(valid) |-> IF valid[i] = 0 THEN results[Len(results)] ELSE results[valid[i]]]

\* the positions of _compare_products resolved (advisor.py:203-206)
Selected(results, indices) ==
    LET valid == SelectSeq(indices, LAMBDA idx : 1 <= idx /\ idx <= Len(results))
    IN  [i \in 1..Len(valid) |-> results[valid[i]]]

\* the key of min() orders a before b: (0 if in_stock else 1, price / ram_gb)
BetterPick(a, b) ==
    LET ka == IF a.in_stock THEN 0 ELSE 1
        kb == IF b.in_stock THEN 0 ELSE 1
    IN  ka < kb \/ (ka = kb /\ a.price * b.ram_gb < b.price * a.ram_gb)

\* min(selected, key=...): the first item no other item is ordered before
BestPick(selected) ==
    selected[CHOOSE i \in DOMAIN selected :
                 /\ \A j \in DOMAIN selected : ~BetterPick(selected[j], selected[i])
                 /\ \A j \in 1..(i - 1) : BetterPick(selected[i], selected[j])]

RECURSIVE ComparisonItems(_, _)
ComparisonItems(selected, i) ==
    IF i > Len(selected) THEN <<>>
    ELSE LET p == selected[i]
         IN  NL \o IntToText(i) \o <<".", " ">> \o BrandModel(p) \o NL
                 \o <<" ", " ", " ", "C", "P", "U", ":", " ">> \o p.cpu
                 \o <<",", " ", "R", "A", "M", ":", " ">> \o IntToText(p.ram_gb) \o <<"G", "B">> \o NL
                 \o M_cmp_price \o Money(p.price) \o NL
                 \o <<" ", " ", " ">> \o StockText(p)
                 \o ComparisonItems(selected, i + 1)

\* the fallback comparison (advisor.py:254-268)
ComparisonFallback(selected) ==
    IF \E i \in DOMAIN selected : selected[i].ram_gb = 0
    THEN Raises("ZeroDivisionError")
    ELSE Returns(M_cmp_head \o NL \o ComparisonItems(selected, 1)
                     \o NL \o NL \o M_cmp_best \o BrandModel(BestPick(selected))
                     \o NL \o M_cmp_why)

\* what _compare_products hands to the delegated service: the selected items
\* (nothing when it returns before the call)
compare_sent(results, indices) ==
    IF results = <<>> THEN <<>> ELSE Selected(results, indices)

\* _compare_products(indices) over self.last_results, with the delegated reply
compare_products(results, indices, reply) ==
    IF results = <<>> THEN Returns(M_no_results)
    ELSE IF Selected(results, indices) = <<>>
    THEN Returns(M_bad_numbers \o IntToText(Len(results)) \o <<".">>)
    ELSE IF reply.kind = "content" /\ reply.content.t = "str"
    THEN Returns(FixCurrency(reply.content.v))
    ELSE ComparisonFallback(Selected(results, indices))

-----------------------------------------------------------------------------
(* process_command *)

ExitPhrases == {T_exit_ru, T_exit_en, T_quit}
IntentWords == {T_rekomend, T_sovet, T_posovetuj}

\* any(word in user_input_lower for word in ["рекоменд", "совет", "посоветуй"])
WantsRecommendation(low) == \E w \in IntentWords : Contains(low, w)

NoExtract == [filters |-> EmptyMap, failed |-> FALSE]

\* _apply_filters(filters): the standing filters it leaves and what it gives
apply_filters(brands, prefs, cf, filters) ==
    LET merged == MergeFilters(cf, filters)
    IN  [current_filters |-> merged, result |-> FilterProducts(brands, prefs, merged)]

\* the mutant of SetPreference: an unresolved brand clears the preference
SetPreferenceClearing(prefs, matched) == [prefs EXCEPT !.brand = matched]

\* if matched_brand: self.preferences['brand'] = matched_brand
SetPreference(prefs, matched) ==
    IF Truthy(matched) THEN [prefs EXCEPT !.brand = matched] ELSE prefs

\* the mutant of StoreResults: the list is kept only when it has items
StoreResultsNonEmpty(old, filtered) == IF filtered = <<>> THEN old ELSE filtered

\* self.last_results = filtered.copy()
StoreResults(old, filtered) == filtered

\* a command that leaves the session as it was
Unchanged(prefs, cf, results, out, kind) ==
    [preferences |-> prefs, current_filters |-> cf, last_results |-> results,
     outcome |-> out, kind |-> kind, extracted |-> NoExtract,
     applied |-> Returns(<<>>), sent |-> <<>>]

\* the set-preference command once the brand is matched (advisor.py:281-284)
PreferenceMatched(brands, prefs, cf, results, brand, matched) ==
    [Unchanged(prefs, cf, results,
               IF Truthy(matched)
               THEN Returns(M_pref_ok \o matched.v)
               ELSE Returns(M_brand_open \o brand \o M_brand_close \o Join(brands, <<",", " ">>)),
               "preference")
        EXCEPT !.preferences = SetPreference(prefs, matched)]

\* matched_brand = self._fuzzy_match_brand(brand)
PreferenceBrand(brands, prefs, cf, results, brand) ==
    PreferenceMatched(brands, prefs, cf, results, brand,
                      fuzzy_match_brand(brands, PyStr(brand)).value)

\* brand = original_input.split(maxsplit=1)[1].strip()
PreferenceCommand(brands, prefs, cf, results, parts) ==
    IF Len(parts) < 2
    THEN Unchanged(prefs, cf, results, Raises("IndexError"), "preference")
    ELSE PreferenceBrand(brands, prefs, cf, results, Strip(parts[2]))

\* return self._compare_products(numbers)
CompareCommand(prefs, cf, results, numbers, greply) ==
    [Unchanged(prefs, cf, results, compare_products(results, numbers, greply), "compare")
        EXCEPT !.sent = compare_sent(results, numbers)]

\* the filtering command once last_results is assigned (advisor.py:294-297)
Presented(prefs, new_filters, ap, stored, recommend, greply) ==
    [preferences |-> prefs, current_filters |-> ap.current_filters, last_results |-> stored,
     outcome |-> IF recommend
                 THEN get_full_recommendation(stored, greply)
                 ELSE Returns(format_results(stored)),
     kind |-> "filter", extracted |-> new_filters, applied |-> ap.result,
     sent |-> IF recommend THEN Take(stored, 10) ELSE <<>>]

\* the filtering command once _apply_filters has returned or raised
\* (advisor.py:291-292)
Applied(prefs, results, new_filters, ap, recommend, greply) ==
    IF ap.result.raised
    THEN [preferences |-> prefs, current_filters |-> ap.current_filters,
          last_results |-> results, outcome |-> Raises(ap.result.exc),
          kind |-> "filter", extracted |-> new_filters, applied |-> ap.result, sent |-> <<>>]
    ELSE Presented(prefs, new_filters, ap, StoreResults(results, ap.result.value),
                   recommend, greply)

\* the filtering command once _extract_filters has returned (advisor.py:290-291)
Extracted(brands, prefs, cf, results, new_filters, recommend, greply) ==
    Applied(prefs, results, new_filters,
            apply_filters(brands, prefs, cf, new_filters.filters), recommend, greply)

\* the dispatch of process_command over the trimmed line and its lower case
Dispatch(brands, prefs, cf, results, low, original_input, ereply, greply) ==
    IF low \in ExitPhrases
    THEN Unchanged(prefs, cf, results, Returns(ExitSentinel), "exit")
    ELSE IF StartsWith(low, T_pref)
    THEN PreferenceCommand(brands, prefs, cf, results, SplitOnce(original_input))
    ELSE IF StartsWith(low, T_compare_ru) \/ StartsWith(low, T_compare_en)
    THEN CompareCommand(prefs, cf, results, FindAllInts(original_input, 1), greply)
    ELSE Extracted(brands, prefs, cf, results,
                   extract_filters(brands, original_input, ereply),
                   WantsRecommendation(low), greply)

\* process_command(user_input), with the replies the delegated service would
\* give to the extraction call (ereply) and to the generation call (greply):
\* the session it leaves, what it returns or raises, and what its steps gave
process_command(brands, prefs, cf, results, user_input, ereply, greply) ==
    Dispatch(brands, prefs, cf, results, Lower(Strip(user_input)), Strip(user_input),
             ereply, greply)

-----------------------------------------------------------------------------
(* The inputs of the model. *)

IN_exit_ru == <<"u0432", "u044B", "u0445", "u043E", "u0434">>
IN_exit_en == <<" ", " ", "E", "X", "I", "T", " ">>
IN_pref_typo == <<"u043F", "u0440", "u0435", "u0434", "u043F", "u043E", "u0447", "u0438",
    "u0442", "u0430", "u044E", " ", "L", "e", "n", "v", "o">>
IN_pref_case == <<"u041F", "u0440", "u0435", "u0434", "u043F", "u043E", "u0447", "u0438",
    "u0442", "u0430", "u044E", " ", " ", "d", "e", "l", "l">>
IN_pref_unknown == <<"u043F", "u0440", "u0435", "u0434", "u043F", "u043E", "u0447", "u0438",
    "u0442", "u0430", "u044E", " ", "S", "o", "n", "y">>
IN_pref_bare == <<"u043F", "u0440", "u0435", "u0434", "u043F", "u043E", "u0447", "u0438",
    "u0442", "u0430", "u044E">>
IN_cmp_mixed == <<"u0441", "u0440", "u0430", "u0432", "u043D", "u0438", " ", "1", " ", "u0438",
    " ", "9", "9">>
IN_local == <<"1", "6", "G", "B", " ", "u0432", " ", "u043D", "u0430", "u043B", "u0438",
    "u0447", "u0438", "u0438">>
IN_recommend == <<"u0420", "u0435", "u043A", "u043E", "u043C", "u0435", "u043D", "u0434",
    "u0443", "u0439">>
IN_show == <<"u043F", "u043E", "u043A", "u0430", "u0436", "u0438">>
R_price_sign == <<"u0426", "u0435", "u043D", "u0430", ":", " ", "1", "0", "0", "0", "u20AC">>
R_price_word == <<"u0418", "u0442", "u043E", "u0433", "u043E", " ", "1", "2", "0", "0", " ",
    "u0415", "u0432", "u0440", "u043E">>

Q_Lenvo == <<"L", "e", "n", "v", "o">>
Q_Sony == <<"S", "o", "n", "y">>
Q_i7 == <<"i", "7">>
Q_INTEL == <<"I", "N", "T", "E", "L">>
Q_16 == <<"1", "6">>

\* what the user types
UserInputs ==
    {IN_exit_ru, IN_exit_en, IN_pref_typo, IN_pref_case, IN_pref_unknown, IN_pref_bare,
     IN_cmp_mixed, IN_local, IN_recommend, IN_show}

\* what the delegated service answers to the extraction prompt
ExtractionReplies ==
    {ServiceRaises, NoChoices, NotJson, JsonList,
     JsonObject(EmptyMap),
     JsonObject([max_price |-> PyInt(1000), cpu |-> PyStr(Q_i7)]),
     JsonObject([brand |-> PyStr(Q_Lenvo)]),
     JsonObject([brand |-> PyStr(Q_Sony), in_stock |-> PyBool(FALSE)]),
     JsonObject([brand |-> PyInt(5), max_price |-> PyInt(1000)]),
     JsonObject([ram |-> PyStr(Q_16)]),
     JsonObject([ram |-> PyInt(8), brand |-> NoneV])}

\* the extraction replies of the interactive session
SessionExtractionReplies ==
    {NoChoices,
     JsonObject([brand |-> PyStr(Q_Lenvo)]),
     JsonObject([brand |-> PyStr(Q_Sony), in_stock |-> PyBool(FALSE)]),
     JsonObject([brand |-> PyInt(5), max_price |-> PyInt(1000)])}

\* the generation replies of the interactive session
SessionGenerationReplies ==
    {ServiceRaises, NoChoices, Content(PyStr(T_exit_en))}

\* what the delegated service answers to a recommendation or comparison prompt
GenerationReplies ==
    {ServiceRaises, NoChoices, Content(NoneV), Content(PyStr(T_exit_en)),
     Content(PyStr(R_price_sign)), Content(PyStr(R_price_word))}

\* the filter maps of the direct _apply_filters calls: at most MaxKeys keys,
\* each with a value of its type
FilterValues ==
    [ram |-> {PyInt(16)},
     max_price |-> {PyInt(1000)},
     cpu |-> {PyStr(Q_INTEL)},
     brand |-> {PyStr(Q_Lenvo), PyStr(Q_Sony)},
     in_stock |-> {PyBool(TRUE), PyBool(FALSE)}]

FilterKeys == DOMAIN FilterValues

FilterMaps ==
    UNION {{f \in [K -> UNION {FilterValues[k] : k \in K}] : \A k \in K : f[k] \in FilterValues[k]} :
               K \in {K \in SUBSET FilterKeys : Cardinality(K) <= MaxKeys}}

\* the position lists of the direct _compare_products calls
IndexLists == UNION {[1..n -> 0..MaxIndex] : n \in 0..MaxIndices}

-----------------------------------------------------------------------------
(* The session. *)

\* self.preferences as __init__ leaves it (advisor.py:35-41)
InitialPreferences ==
    [brand |-> NoneV, min_ram |-> NoneV, max_price |-> NoneV, cpu |-> NoneV, in_stock |-> NoneV]

NoCall ==
    [op |-> "", user_input |-> <<>>, ereply |-> NotCalled, greply |-> NotCalled,
     filters |-> EmptyMap, indices |-> <<>>, kind |-> "", extracted |-> NoExtract,
     applied |-> Returns(<<>>), sent |-> <<>>, nth |-> 0, first |-> EmptyMap,
     start |-> EmptyMap]

\* LaptopAdvisor.__init__ (advisor.py:27-42)
Constructed ==
    /\ available_brands \in BrandOrders
    /\ preferences = InitialPreferences
    /\ current_filters = EmptyMap
    /\ last_results = <<>>
    /\ running = TRUE
    /\ call = NoCall
    /\ outcome = Returns(<<>>)

Init == Constructed

\* how process_command dispatches this line (advisor.py:275-290)
CommandKind(user_input) ==
    LET low == Lower(Strip(user_input))
    IN  IF low \in ExitPhrases THEN "exit"
        ELSE IF StartsWith(low, T_pref) THEN "preference"
        ELSE IF StartsWith(low, T_compare_ru) \/ StartsWith(low, T_compare_en) THEN "compare"
        ELSE "filter"

\* whether the line can lead to a call of the delegated generation
MayGenerate(user_input) ==
    \/ CommandKind(user_input) = "compare"
    \/ CommandKind(user_input) = "filter" /\ WantsRecommendation(Lower(Strip(user_input)))

\* response == "exit" (advisor.py:314)
IsExitResponse(out) == ~out.raised /\ out.value = ExitSentinel

\* whether the while loop of main() goes on after this command (advisor.py:313-322):
\* it leaves on the exit response; an exception is reported and the loop goes on
LoopGoesOn(out) == ~IsExitResponse(out)

\* one turn of the loop of main(): a line is read and process_command handles it
Turn(user_input, ereply, greply) ==
    /\ running
    /\ \E r \in {process_command(available_brands, preferences, current_filters, last_results,
                                 user_input, ereply, greply)} :
        /\ preferences' = r.preferences
        /\ current_filters' = r.current_filters
        /\ last_results' = r.last_results
        /\ outcome' = r.outcome
        /\ running' = LoopGoesOn(r.outcome)
        /\ call' = [NoCall EXCEPT !.op = "process_command", !.user_input = user_input,
                                  !.ereply = ereply,
                                  !.greply = IF r.sent = <<>> THEN NotCalled ELSE greply,
                                  !.kind = r.kind, !.extracted = r.extracted,
                                  !.applied = r.applied, !.sent = r.sent]
        /\ UNCHANGED available_brands

\* Ctrl-C at the prompt (advisor.py:318-320)
Interrupt ==
    /\ running
    /\ running' = FALSE
    /\ call' = [NoCall EXCEPT !.op = "KeyboardInterrupt"]
    /\ outcome' = Returns(<<>>)
    /\ UNCHANGED <<available_brands, preferences, current_filters, last_results>>

Next ==
    \/ \E user_input \in UserInputs :
           \E ereply \in (IF CommandKind(user_input) = "filter"
                          THEN SessionExtractionReplies ELSE {NotCalled}) :
               \E greply \in (IF MayGenerate(user_input)
                              THEN SessionGenerationReplies ELSE {NotCalled}) :
                   Turn(user_input, ereply, greply)
    \/ Interrupt

\* the interactive session of main()
Spec == Init /\ [][Next]_vars

-----------------------------------------------------------------------------
(* Direct calls of _apply_filters, as test_advisor.py makes them, between   *)
(* set-preference commands.                                                 *)

\* advisor._apply_filters(filters)
ApplyCall(filters) ==
    /\ \E r \in {apply_filters(available_brands, preferences, current_filters, filters)} :
           /\ current_filters' = r.current_filters
           /\ outcome' = r.result
    /\ call' = [NoCall EXCEPT !.op = "_apply_filters"]
    /\ UNCHANGED <<available_brands, preferences, last_results, running>>

\* the set-preference lines typed between the calls
PreferenceInputs == {IN_pref_typo, IN_pref_case}

NextApply ==
    \/ \E filters \in FilterMaps : ApplyCall(filters)
    \/ \E user_input \in PreferenceInputs : Turn(user_input, NotCalled, NotCalled)

SpecApply == Init /\ [][NextApply]_vars

\* the product meets the standing preference and every filter of the map
Meets(p, brands, prefs, cf) ==
    /\ Truthy(prefs.brand) => Lower(p.brand) = Lower(prefs.brand.v)
    /\ "ram" \in DOMAIN cf => p.ram_gb >= cf["ram"].v
    /\ "max_price" \in DOMAIN cf => p.price <= 100 * cf["max_price"].v
    /\ "cpu" \in DOMAIN cf => Contains(Lower(p.cpu), Lower(cf["cpu"].v))
    /\ "brand" \in DOMAIN cf =>
           LET matched == fuzzy_match_brand(brands, cf["brand"]).value
           IN  Truthy(matched) => Lower(p.brand) = Lower(matched.v)
    /\ "in_stock" \in DOMAIN cf => p.in_stock = cf["in_stock"].v

\* C1: after any sequence of _apply_filters calls, every product the latest
\* call returned meets every constraint whose key is in Current Filters
\* (ram_gb >= ram, price <= max_price, cpu contained case-insensitively,
\* in_stock equal), and every product of the catalog that meets all the active
\* constraints, the brand stages included, is returned.
C1_FilteringSoundAndComplete ==
    (call.op = "_apply_filters" /\ ~outcome.raised) =>
        /\ \A i \in DOMAIN outcome.value :
               Meets(outcome.value[i], available_brands, preferences, current_filters)
        /\ \A i \in DOMAIN Products :
               Meets(Products[i], available_brands, preferences, current_filters)
                   => \E j \in DOMAIN outcome.value : outcome.value[j] = Products[i]

\* a call under a brand preference and three standing filters that keeps some
\* of the catalog and drops the rest
C1_Witness ==
    /\ call.op = "_apply_filters"
    /\ ~outcome.raised
    /\ Truthy(preferences.brand)
    /\ Cardinality(DOMAIN current_filters) >= 3
    /\ outcome.value # <<>>
    /\ Len(outcome.value) < Len(Products)

-----------------------------------------------------------------------------
(* Two _apply_filters calls in a row from a session state, against the one  *)
(* call with the two maps merged.                                            *)

\* the standing filters of the session state the two calls start from: none,
\* a memory filter or a brand filter
StartFilters == {f \in FilterMaps : DOMAIN f \in {{}, {"ram"}, {"brand"}}}

\* the preferences of the session state the two calls start from
StartPreferences ==
    {InitialPreferences, SetPreference(InitialPreferences, PyStr(B_Lenovo))}

\* a session in which filters and a preference may already stand
InitCumul ==
    /\ available_brands \in BrandOrders
    /\ preferences \in StartPreferences
    /\ current_filters \in StartFilters
    /\ last_results = <<>>
    /\ running = TRUE
    /\ call = [NoCall EXCEPT !.start = current_filters]
    /\ outcome = Returns(<<>>)

\* advisor._apply_filters(filters), the first or the second call of the pair
CumulCall(filters) ==
    /\ call.nth < 2
    /\ \E r \in {apply_filters(available_brands, preferences, current_filters, filters)} :
           /\ current_filters' = r.current_filters
           /\ outcome' = r.result
    /\ call' = [call EXCEPT !.op = "_apply_filters", !.nth = call.nth + 1,
                            !.first = IF call.nth = 0 THEN filters ELSE call.first,
                            !.filters = filters]
    /\ UNCHANGED <<available_brands, preferences, last_results, running>>

NextCumul == \E filters \in FilterMaps : CumulCall(filters)

SpecCumul == InitCumul /\ [][NextCumul]_vars

\* C2: Current Filters are cumulative: _apply_filters(f1) and then
\* _apply_filters(f2) return the same product list and leave the same Current
\* Filters as the one call _apply_filters(f1 overridden by f2) from the same
\* state; a key set earlier stays, with its value, until a later call supplies
\* the same key.
C2_Cumulative ==
    call.nth = 2 =>
        LET one == apply_filters(available_brands, preferences, call.start,
                                 DictUpdate(call.first, call.filters))
        IN  /\ outcome = one.result
            /\ current_filters = one.current_filters
            /\ \A k \in DOMAIN call.first \ DOMAIN call.filters :
                   k \in DOMAIN current_filters /\ current_filters[k] = call.first[k]
            /\ \A k \in DOMAIN call.start \ (DOMAIN call.first \cup DOMAIN call.filters) :
                   k \in DOMAIN current_filters /\ current_filters[k] = call.start[k]

\* two calls from a state with a standing filter, the second overriding one
\* key of the first and leaving another, with products returned
C2_Witness ==
    /\ call.nth = 2
    /\ call.start # EmptyMap
    /\ \E k \in DOMAIN call.first \cap DOMAIN call.filters : call.first[k] # call.filters[k]
    /\ DOMAIN call.first \ DOMAIN call.filters # {}
    /\ DOMAIN call.start \ (DOMAIN call.first \cup DOMAIN call.filters) # {}
    /\ ~outcome.raised
    /\ outcome.value # <<>>

-----------------------------------------------------------------------------
(* The claims about the interactive session.                                 *)

\* every product of the list is of the brand, case-insensitively
AllOfBrand(products, brand) ==
    \A i \in DOMAIN products : Lower(products[i].brand) = Lower(brand)

\* C3: once a set-preference command has resolved to brand B, every later
\* filtering command, whatever filters it extracts, returns and stores in Last
\* Results only products of brand B (case-insensitively) until another
\* set-preference command succeeds; no command other than a successful
\* set-preference changes Preferences.
C3_PreferenceHolds ==
    [][/\ (/\ call'.kind = "filter"
           /\ ~call'.applied.raised
           /\ Truthy(preferences.brand))
          => /\ last_results' = call'.applied.value
             /\ AllOfBrand(call'.applied.value, preferences.brand.v)
             /\ preferences' = preferences
       /\ preferences' # preferences
          => /\ call'.kind = "preference"
             /\ ~outcome'.raised
             /\ StartsWith(outcome'.value, M_pref_ok)
             /\ preferences'.brand.t = "str"
             /\ preferences'.brand.v \in BrandSet
             /\ preferences' = [preferences EXCEPT !.brand = preferences'.brand]]_vars

\* under a preference, a filtering command that extracted a brand filter of
\* its own has stored products
C3_Witness ==
    /\ call.kind = "filter"
    /\ Truthy(preferences.brand)
    /\ "brand" \in DOMAIN call.extracted.filters
    /\ ~call.applied.raised
    /\ last_results # <<>>
    /\ last_results = call.applied.value

-----------------------------------------------------------------------------
(* One direct call of _compare_products or _get_full_recommendation over a  *)
(* Last Results list that filtering left, as the tests make it; neither     *)
(* call changes the session.                                                 *)

\* the lists a filtering command can have left in last_results
ResultLists(brands) ==
    {FilterProducts(brands, prefs, f).value : prefs \in StartPreferences, f \in FilterMaps}

InitCompare ==
    /\ available_brands \in BrandOrders
    /\ preferences = InitialPreferences
    /\ current_filters = EmptyMap
    /\ last_results \in ResultLists(available_brands)
    /\ running = TRUE
    /\ call = NoCall
    /\ outcome = Returns(<<>>)

\* advisor._compare_products(indices)
CompareCall(indices, greply) ==
    /\ call.nth = 0
    /\ outcome' = compare_products(last_results, indices, greply)
    /\ call' = [NoCall EXCEPT !.op = "_compare_products", !.nth = 1, !.indices = indices,
                              !.sent = compare_sent(last_results, indices),
                              !.greply = IF compare_sent(last_results, indices) = <<>>
                                         THEN NotCalled ELSE greply]
    /\ UNCHANGED <<available_brands, preferences, current_filters, last_results, running>>

\* advisor._get_full_recommendation(self.last_results)
RecommendCall(greply) ==
    /\ call.nth = 0
    /\ outcome' = get_full_recommendation(last_results, greply)
    /\ call' = [NoCall EXCEPT !.op = "_get_full_recommendation", !.nth = 1,
                              !.sent = Take(last_results, 10),
                              !.greply = IF last_results = <<>> THEN NotCalled ELSE greply]
    /\ UNCHANGED <<available_brands, preferences, current_filters, last_results, running>>

NextCompare ==
    \/ \E indices \in IndexLists : \E greply \in GenerationReplies : CompareCall(indices, greply)
    \/ \E greply \in GenerationReplies : RecommendCall(greply)

SpecCompare == InitCompare /\ [][NextCompare]_vars

\* the positions of the list that lie in 1..n, in the given order
InRange(indices, n) == SelectSeq(indices, LAMBDA idx : idx \in 1..n)

\* the invalid-positions error naming the range 1 to n
InvalidPositions(n) == M_bad_numbers \o IntToText(n) \o <<".">>

\* what C4 says of a call over a Last Results list of length n
ComparesInRange(n) ==
    LET valid == InRange(call.indices, n)
        items == [k \in 1..Len(valid) |-> last_results[valid[k]]]
    IN  IF valid = <<>>
        THEN outcome = Returns(InvalidPositions(n)) /\ call.sent = <<>>
        ELSE /\ call.sent = items
             /\ outcome # Returns(InvalidPositions(n))
             /\ call.greply.kind # "content" => outcome = ComparisonFallback(items)

\* C4 as stated: for every Last Results list of length N and every list of
\* positions, positions outside 1..N are dropped and the comparison is built
\* from exactly the items at the in-range positions, in the given order; with
\* no position in 1..N the result is the invalid-positions error naming 1 to N.
C4_AsStated == call.op = "_compare_products" => ComparesInRange(Len(last_results))

\* C4 amended: the same for every non-empty Last Results list (N >= 1).
C4_Amended ==
    (call.op = "_compare_products" /\ last_results # <<>>) => ComparesInRange(Len(last_results))

\* a call with a position in range after one out of range, and a call with
\* positions of which none is in range, over a list with items
C4_Witness ==
    /\ call.op = "_compare_products"
    /\ Len(last_results) >= 2
    /\ Len(call.indices) = 2
    /\ \/ /\ call.indices[1] > Len(last_results)
          /\ call.indices[2] \in 1..Len(last_results)
          /\ Len(call.sent) = 1
          /\ call.greply = ServiceRaises
       \/ /\ call.indices[1] = 0
          /\ call.indices[2] > Len(last_results)
          /\ outcome = Returns(InvalidPositions(Len(last_results)))

\* C5: recommendation and comparison always produce a usable response: for a
\* non-empty product list, whenever the delegated call raises or its reply has
\* no choices, _get_full_recommendation returns the deterministic fallback
\* (error marker plus up to 3 products) and _compare_products returns the
\* deterministic comparison with a locally computed best pick; neither raises.
C5_AlwaysUsable ==
    (call.greply \in {ServiceRaises, NoChoices} /\ call.sent # <<>>) =>
        /\ ~outcome.raised
        /\ call.op = "_get_full_recommendation"
               => outcome.value = RecommendationFallback(last_results)
        /\ call.op = "_compare_products"
               => outcome = ComparisonFallback(call.sent)

-----------------------------------------------------------------------------
(* Direct calls of _extract_filters.                                        *)

IN_ram_ru == <<"u041D", "u0443", "u0436", "u0435", "u043D", " ", "u0420", "u0410", "u041C",
    " ", "8", " ", "u0438", " ", "I", "n", "t", "e", "l">>
IN_gb_spaced == <<"u043D", "u043E", "u0443", "u0442", "u0431", "u0443", "u043A", " ", "3", "2",
    " ", " ", "G", "b">>

\* the user texts given to _extract_filters
ExtractInputs == {IN_local, IN_recommend, IN_show, IN_ram_ru, IN_gb_spaced, IN_cmp_mixed}

\* advisor._extract_filters(user_input)
ExtractCall(user_input, ereply) ==
    /\ call' = [NoCall EXCEPT !.op = "_extract_filters", !.user_input = user_input,
                              !.ereply = ereply,
                              !.extracted = extract_filters(available_brands, user_input, ereply)]
    /\ outcome' = Returns(<<>>)
    /\ UNCHANGED <<available_brands, preferences, current_filters, last_results, running>>

NextExtract ==
    \E user_input \in ExtractInputs : \E ereply \in ExtractionReplies :
        ExtractCall(user_input, ereply)

SpecExtract == Init /\ [][NextExtract]_vars

\* C6: whenever the delegated extraction call fails (the call raises, the
\* reply is not usable JSON or cannot be processed, or it has no choices),
\* _extract_filters does not raise and returns exactly the filters of the
\* local regex pass (only in_stock and/or ram), with no key or value taken
\* from the delegated reply.
C6_DegradesToLocal ==
    (call.op = "_extract_filters" /\ call.extracted.failed) =>
        /\ ~outcome.raised
        /\ call.extracted.filters = LocalFilters(call.user_input)
        /\ DOMAIN call.extracted.filters \subseteq {"in_stock", "ram"}

\* the brand of the mapping, if it has one, is a known brand
BrandVerified(filters) ==
    "brand" \in DOMAIN filters =>
        filters["brand"].t = "str" /\ filters["brand"].v \in BrandSet

\* C7: for every user text and every reply of the delegated service, the
\* mapping _extract_filters returns has no brand key or a brand that is one of
\* the known brands: a brand the Brand Matcher does not resolve is never
\* propagated, and so never stored in Current Filters by process_command.
C7_BrandVerified ==
    /\ call.op \in {"_extract_filters", "process_command"} => BrandVerified(call.extracted.filters)
    /\ BrandVerified(current_filters)

-----------------------------------------------------------------------------
(* The claims about the dispatch of process_command and the loop of main().  *)

\* the brand text of the set-preference line does not resolve to a known
\* brand, or the line has no brand text
Unresolved(brands, user_input) ==
    LET parts == SplitOnce(Strip(user_input))
    IN  \/ Len(parts) < 2
        \/ ~Truthy(fuzzy_match_brand(brands, PyStr(Strip(parts[2]))).value)

\* C8: for every command that starts with the set-preference phrase and whose
\* brand text does not resolve to a known brand (a command with no brand text
\* after the phrase included), process_command returns a not-found message
\* naming the available brands, leaves Preferences unchanged and does not
\* raise.
C8_UnknownBrandReported ==
    [][(/\ call'.op = "process_command"
        /\ StartsWith(Lower(Strip(call'.user_input)), T_pref)
        /\ Unresolved(available_brands, call'.user_input))
       => /\ ~outcome'.raised
          /\ StartsWith(outcome'.value, M_brand_open)
          /\ Contains(outcome'.value, M_brand_close \o Join(available_brands, <<",", " ">>))
          /\ preferences' = preferences]_vars

\* the line is an exit phrase, trimmed and case-insensitively
IsExitPhrase(user_input) == Lower(Strip(user_input)) \in ExitPhrases

\* C9: process_command returns the exit sentinel for every exit phrase
\* (trimmed, case-insensitive) and the loop then terminates; the sentinel is
\* distinct from every response to a non-exit command, so the loop terminates
\* on a command's response only when the command was an exit phrase.
C9_ExitOnlyOnExitPhrase ==
    call.op = "process_command" =>
        IF IsExitPhrase(call.user_input)
        THEN outcome = Returns(ExitSentinel) /\ ~running
        ELSE outcome # Returns(ExitSentinel) /\ running

\* C10: Last Results is replaced on every filtering command with exactly the
\* list that command's filter application returned, and is left unchanged by
\* every other command: exit, set-preference (successful or not) and compare
\* leave Last Results and Current Filters as they were.
C10_LastResultsFrame ==
    [][call'.op = "process_command" =>
           IF CommandKind(call'.user_input) = "filter"
           THEN ~call'.applied.raised => last_results' = call'.applied.value
           ELSE last_results' = last_results /\ current_filters' = current_filters]_vars

\* a filtering command has replaced Last Results with the empty list its
\* filter application returned under two or more standing filters
C10_Witness ==
    /\ call.op = "process_command"
    /\ CommandKind(call.user_input) = "filter"
    /\ ~call.applied.raised
    /\ call.applied.value = <<>>
    /\ last_results = <<>>
    /\ Cardinality(DOMAIN current_filters) >= 2


-----------------------------------------------------------------------------
(* The currency of a delegated reply, over the direct calls of              *)
(* _get_full_recommendation and _compare_products.                          *)

\* whether the run of digits that starts at i is given in euros: the euro
\* symbol stands next to it, or the word for euro follows it
InEuros(s, i) ==
    \/ MatchAt(s, T_euro_sign, RunEnd(s, i, TRUE) + 1)
    \/ MatchAt(s, T_euro_sign, i - 1)
    \/ MatchAt(Lower(s), T_evro, RunEnd(s, RunEnd(s, i, TRUE) + 1, FALSE) + 1)

\* the numbers a text gives in euros
EuroPrices(s) ==
    {SubSeq(s, i, RunEnd(s, i, TRUE)) :
         i \in {j \in 1..Len(s) : /\ IsDigit(s[j])
                                  /\ (j = 1 \/ ~IsDigit(s[j - 1]))
                                  /\ InEuros(s, j)}}

\* C11: for every reply text of the delegated service, the text returned by
\* _get_full_recommendation and by _compare_products contains no euro symbol,
\* and every price the reply gave in euros (a number with the euro symbol, or
\* a number with the word for euro) stands in the output as a dollar-prefixed
\* number, the '$' immediately before the digits.
C11_EurosShownAsDollars ==
    (call.greply.kind = "content" /\ call.greply.content.t = "str") =>
        /\ ~outcome.raised
        /\ ~Contains(outcome.value, T_euro_sign)
        /\ \A d \in EuroPrices(call.greply.content.v) :
               Contains(outcome.value, T_dollar \o d)

-----------------------------------------------------------------------------
(* The brand stage of _apply_filters, over the direct calls of SpecApply.   *)

\* every product of the list has this brand, case-insensitively
OnlyBrand(products, matched) ==
    /\ ~matched.raised
    /\ matched.value.t = "str"
    /\ \A i \in DOMAIN products : Lower(products[i].brand) = Lower(matched.value.v)

\* what the amended C12 says of a returned list, given what the Brand Matcher
\* makes of the stored brand
BrandStageHolds(products, matched) ==
    IF ~matched.raised /\ Truthy(matched.value)
    THEN OnlyBrand(products, matched)
    ELSE Returns(products) =
             FilterProducts(available_brands, preferences, DictDel(current_filters, "brand"))

\* C12 as stated: whenever Current Filters contains a brand key, for every
\* stored brand value (resolvable by the Brand Matcher or not), every product
\* returned by _apply_filters has a brand equal, case-insensitively, to the
\* value the Brand Matcher resolves that stored brand to; the brand stage is
\* skipped only when the brand key is absent from Current Filters.
C12_AsStated ==
    (call.op = "_apply_filters" /\ ~outcome.raised /\ "brand" \in DOMAIN current_filters) =>
        OnlyBrand(outcome.value, fuzzy_match_brand(available_brands, current_filters["brand"]))

\* C12 amended: whenever Current Filters contains a brand key whose stored
\* value the Brand Matcher resolves, every product returned by _apply_filters
\* has a brand equal, case-insensitively, to the resolved value; when the
\* stored value does not resolve, the brand stage is skipped as when the key
\* is absent, and the returned list is the one the other filters give.
C12_Amended ==
    (call.op = "_apply_filters" /\ ~outcome.raised /\ "brand" \in DOMAIN current_filters) =>
        BrandStageHolds(outcome.value,
                        fuzzy_match_brand(available_brands, current_filters["brand"]))

\* a call whose stored brand is a typo of a known brand, with no preference
\* and no other filter: the brand stage alone keeps some of the catalog and
\* drops the rest
C12_Witness ==
    /\ call.op = "_apply_filters"
    /\ ~outcome.raised
    /\ ~Truthy(preferences.brand)
    /\ current_filters = [brand |-> PyStr(Q_Lenvo)]
    /\ outcome.value # <<>>
    /\ Len(outcome.value) < Len(Products)
    /\ \A i \in DOMAIN outcome.value : outcome.value[i].brand = B_Lenovo

-----------------------------------------------------------------------------
(* A filtering command that raises, in the interactive session.             *)

\* every value of the extracted filters has the type its stage works on
WellFormed(filters) ==
    /\ "ram" \in DOMAIN filters => IsNumber(filters["ram"])
    /\ "max_price" \in DOMAIN filters => IsNumber(filters["max_price"])
    /\ "cpu" \in DOMAIN filters => filters["cpu"].t = "str"
    /\ "brand" \in DOMAIN filters => filters["brand"].t = "str"

\* C13: a filtering command that fails leaves the session able to serve later
\* commands: if process_command raises while applying filters, Current
\* Filters and Last Results are the same as before that command, so a
\* filtering command whose own extracted filters are well-formed does not
\* raise while applying filters.
C13_FailedFilteringLeavesSession ==
    [][(call'.op = "process_command" /\ CommandKind(call'.user_input) = "filter") =>
           /\ call'.applied.raised =>
                  current_filters' = current_filters /\ last_results' = last_results
           /\ WellFormed(call'.extracted.filters) => ~call'.applied.raised]_vars

=============================================================================
